---- MODULE Spec2Model ----
(***************************************************************************)
(* Model of the fraud-detection backend (src/backend/main.py): the model   *)
(* registry filled at startup, the /predict handler run as coroutines of   *)
(* one asyncio event loop, the JSON history file with its load / update /  *)
(* save functions, and the explanation client.                             *)
(*                                                                         *)
(* A handler is a sequence of steps; the event loop runs one coroutine at  *)
(* a time and switches only where the running coroutine awaits.            *)
(***************************************************************************)
EXTENDS Integers, Sequences, FiniteSets, TLC

VARIABLES
    artifacts,  \* the model files in the ml directory
    quota,      \* how many /predict requests the clients send in the run
    app,        \* "booting", "serving", or "crashed" when startup raised
    models,     \* the registry: mode -> loaded artifact, or None
    file,       \* fraud_history.json
    running,    \* the request whose coroutine holds the event loop, 0 if none
    req,        \* per request: where its handler stands, and its locals
    baseline,   \* history: the mapping the store last started from
    fraudOk,    \* history: fraud responses sent per handle since then
    answered    \* history: the handles that got a response since then

vars ==
    <<artifacts, quota, app, models, file, running, req, baseline, fraudOk, answered>>

(***************************************************************************)
(* Bounds of the model.                                                    *)
(***************************************************************************)
\* number of /predict requests of a run
NumReqs == 3
\* last reading of the clock
MaxTime == 1

\* what utcnow() can read during the run; a stamp of 0 is from an earlier run
Times == 1..MaxTime

\* the longest run has one request more
Reqs == 1..(NumReqs + 1)
Handles == {"a@upi", "b@upi"}
Modes == {"fast", "accurate"}

\* language: Literal["en", "hi", "mr"] of TransactionInput
SupportedLanguages == {"en", "hi", "mr"}
\* the languages the clients of the model ask for: one supported, one not
RequestLanguages == {"en", "fr"}

\* the validation of the language field before the handler is called
ValidLanguage(l) == l \in SupportedLanguages

(***************************************************************************)
(* Python values: None and Optional[str].                                  *)
(***************************************************************************)
\* an Optional value is a sequence of at most one element
PyNone == <<>>
Some(x) == <<x>>
IsStr(x) == Len(x) = 1

(***************************************************************************)
(* Model registry.                                                         *)
(***************************************************************************)
NoModel == "None"
Artifacts == {"model_fast.pkl", "model_accurate.pkl", "model.pkl"}

\* what the ml directory can hold when the app starts: nothing, the artifact
\* of one mode, or the accurate artifact beside the legacy model.pkl
ArtifactSets ==
    {{}, {"model_fast.pkl"}, {"model_accurate.pkl"},
     {"model_accurate.pkl", "model.pkl"}}

\* the dict of line 104, before load_model
ModelsAtImport == [m \in Modes |-> NoModel]

\* load_model: each mode from its own artifact, else from model.pkl
LoadModel(present) ==
    [m \in Modes |->
        LET own == IF m = "fast" THEN "model_fast.pkl" ELSE "model_accurate.pkl"
        IN  IF own \in present THEN own
            ELSE IF "model.pkl" \in present THEN "model.pkl"
            ELSE NoModel]

LoadModelRaises_Never(ms) == FALSE

\* load_model raises when no mode got a classifier
LoadModelRaises(ms) == ms["fast"] = NoModel /\ ms["accurate"] = NoModel

\* a or b of Python, on registry entries
PyOr(a, b) == IF a # NoModel THEN a ELSE b

SelectModel_NoFallback(ms, mode) == ms[mode]

\* lines 162-167 of predict_fraud: the requested mode, else fast, else accurate
SelectModel(ms, mode) ==
    IF ms[mode] # NoModel THEN ms[mode] ELSE PyOr(ms["fast"], ms["accurate"])

RegistryAfterSelect_CachesFallback(ms, mode) ==
    [ms EXCEPT ![mode] = SelectModel(ms, mode)]

\* the registry after lines 162-167: predict_fraud reads it with models.get and
\* assigns nothing to it
RegistryAfterSelect(ms, mode) == ms

(***************************************************************************)
(* Fraud history: the JSON file and the mapping it holds.                  *)
(***************************************************************************)
NoRec == [present |-> FALSE, fraud_count |-> 0, last_seen |-> 0]
EmptyMap == [h \in Handles |-> NoRec]

JsonDump_OmitsZeroCounts(history) ==
    [h \in {k \in Handles : history[k].present /\ history[k].fraud_count > 0} |->
        [fraud_count |-> history[h].fraud_count, last_seen |-> history[h].last_seen]]

\* json.dump(history, f, indent=2): the JSON object with one member per key of
\* the dict, its value the object of the record's fraud_count and last_seen
JsonDump(history) ==
    [h \in {k \in Handles : history[k].present} |->
        [fraud_count |-> history[h].fraud_count, last_seen |-> history[h].last_seen]]

\* json.load(f): the dict of the members of the object
JsonLoad(text) ==
    [h \in Handles |->
        IF h \in DOMAIN text
        THEN [present |-> TRUE, fraud_count |-> text[h].fraud_count,
              last_seen |-> text[h].last_seen]
        ELSE NoRec]

\* the file: absent, holding a JSON object, or truncated
FileMissing == [kind |-> "missing", text |-> <<>>]
FileCorrupt == [kind |-> "corrupt", text |-> <<>>]
JsonFile(text) == [kind |-> "json", text |-> text]

\* load_fraud_history: {} when the file is missing or cannot be read or parsed
LoadFraudHistory(f) == IF f.kind = "json" THEN JsonLoad(f.text) ELSE EmptyMap

LoadRaises_Unreadable(f) == f.kind = "corrupt"

\* lines 64-68: whatever open or json.load raises is caught, load_fraud_history
\* raises nothing
LoadRaises(f) == FALSE

\* outcomes of save_fraud_history: written; open() fails and the file is left
\* alone; open() truncated the file and json.dump fails part-way
SaveOutcomes == {"ok", "open_fails", "write_fails"}

SaveFraudHistory(f, history, outcome) ==
    CASE outcome = "ok" -> JsonFile(JsonDump(history))
      [] outcome = "open_fails" -> f
      [] OTHER -> FileCorrupt

SaveRaises_Swallowed(outcome) == FALSE

\* save_fraud_history has no handler of its own: a failure of open or dump
\* propagates
SaveRaises(outcome) == outcome # "ok"

Updated_StampOnlyOnFraud(history, upi, is_fraud, t) ==
    LET h1 == IF history[upi].present THEN history
              ELSE [history EXCEPT ![upi] = [present |-> TRUE, fraud_count |-> 0, last_seen |-> 0]]
    IN  IF is_fraud
        THEN [h1 EXCEPT ![upi].fraud_count = @ + 1, ![upi].last_seen = t]
        ELSE h1

\* lines 78-84 of update_fraud_history, on the loaded mapping
Updated(history, upi, is_fraud, t) ==
    LET h1 == IF history[upi].present THEN history
              ELSE [history EXCEPT ![upi] = [present |-> TRUE, fraud_count |-> 0, last_seen |-> 0]]
        h2 == IF is_fraud
              THEN [h1 EXCEPT ![upi].fraud_count = @ + 1]
              ELSE h1
    IN  [h2 EXCEPT ![upi].last_seen = t]

RecurringThreshold == 3

IsRecurringCount_Strict(c) == c > RecurringThreshold

\* the comparison of line 91
IsRecurringCount(c) == c >= RecurringThreshold

\* is_recurring_fraud_upi: history.get(upi, {}).get("fraud_count", 0) >= 3
IsRecurringFraudUpi(f, upi) ==
    LET history == LoadFraudHistory(f)
    IN  IsRecurringCount(IF history[upi].present THEN history[upi].fraud_count ELSE 0)

(***************************************************************************)
(* Explanation client.                                                     *)
(***************************************************************************)
\* what the POST to /explain can end in: a 200 whose JSON object carries a
\* non-empty explanation (a string, as ExplanationResponse declares), an empty
\* one, none; a 200 whose JSON is no object; a
\* timeout; a refused connection; a 4xx/5xx status; a 200 whose body is no JSON,
\* which response.json() reports as a requests JSONDecodeError (a
\* RequestException) or, in older releases of requests, as a plain ValueError
BackendOutcomes ==
    {"text", "empty", "missing", "not_object", "timeout", "connection",
     "http_error", "bad_json_requests", "bad_json_value"}

BackendFailures == {"timeout", "connection", "http_error"}

BackendText == "explanation from the backend"
TimeoutMsg == "AI explanation service is taking too long to respond."
UnavailableMsg == "AI explanation service is currently unavailable."
ErrorMsg == "AI explanation service encountered an error."

Returns(v) == [raises |-> FALSE, value |-> v]
Raises == [raises |-> TRUE, value |-> PyNone]

GetAiExplanation_TimeoutEscapes(outcome) ==
    CASE outcome = "text" -> Returns(Some(BackendText))
      [] outcome \in {"empty", "missing"} -> Returns(PyNone)
      [] outcome = "timeout" -> Raises
      [] outcome = "connection" -> Returns(Some(UnavailableMsg))
      [] outcome \in {"http_error", "bad_json_requests"} -> Returns(Some(ErrorMsg))
      [] OTHER -> Returns(PyNone)

GetAiExplanation_NoCatchAll(outcome) ==
    CASE outcome = "text" -> Returns(Some(BackendText))
      [] outcome \in {"empty", "missing"} -> Returns(PyNone)
      [] outcome = "timeout" -> Returns(Some(TimeoutMsg))
      [] outcome = "connection" -> Returns(Some(UnavailableMsg))
      [] outcome \in {"http_error", "bad_json_requests"} -> Returns(Some(ErrorMsg))
      [] OTHER -> Raises

\* get_ai_explanation, lines 235-256: the try block and its five handlers
GetAiExplanation(outcome) ==
    CASE outcome = "text" -> Returns(Some(BackendText))
      [] outcome \in {"empty", "missing"} -> Returns(PyNone)
      [] outcome = "timeout" -> Returns(Some(TimeoutMsg))
      [] outcome = "connection" -> Returns(Some(UnavailableMsg))
      [] outcome \in {"http_error", "bad_json_requests"} -> Returns(Some(ErrorMsg))
      [] OTHER -> Returns(PyNone)

(***************************************************************************)
(* The /predict handler.                                                   *)
(***************************************************************************)
\* the numeric inputs of the transaction each handle sends: amounts and
\* distances in whole units, timeAnomaly and merchantNovelty at the ends of
\* their range [0, 1]
Transactions ==
    [h \in Handles |->
        IF h = "a@upi"
        THEN [transactionAmount |-> 500, transactionAmountDeviation |-> 2,
              timeAnomaly |-> 1, locationDistance |-> 30, merchantNovelty |-> 1,
              transactionFrequency |-> 0]
        ELSE [transactionAmount |-> 20, transactionAmountDeviation |-> 3,
              timeAnomaly |-> 0, locationDistance |-> 7, merchantNovelty |-> 1,
              transactionFrequency |-> 4]]

Features_Swapped(transaction) ==
    <<transaction.transactionAmount, transaction.timeAnomaly,
      transaction.transactionAmountDeviation, transaction.locationDistance,
      transaction.merchantNovelty, transaction.transactionFrequency>>

\* lines 178-185: the row handed to predict and predict_proba, in the order of
\* the training columns; the mode is not consulted
Features(transaction) ==
    <<transaction.transactionAmount, transaction.transactionAmountDeviation,
      transaction.timeAnomaly, transaction.locationDistance,
      transaction.merchantNovelty, transaction.transactionFrequency>>

\* what model.predict and model.predict_proba report, the probability of
\* class 1 in units of 10^-5: the label is the class of higher probability
ClassifierResults ==
    {[label |-> FALSE, prob |-> 12344], [label |-> TRUE, prob |-> 87656]}

\* round(float(p), 4), in units of 10^-4
Round4(p) == (p + 5) \div 10

NoResp ==
    [fraud |-> FALSE, risk_score |-> 0, model_used |-> "", recurring_fraud_upi |-> FALSE,
     fraud_count |-> 0, explanation |-> PyNone]

\* a request not yet received: no coroutine, no locals. Beside the locals of
\* predict_fraud the record keeps what happened to the request: how the
\* explanation call just ended (backend), how often the classifier was called
\* (calls, on the row features) and whether a call of it raised (clfFailed), whether its history
\* write was stored or failed (saved, saveFailed), whether the file it loaded
\* was there but could not be parsed (unreadable), and whether another request
\* for its handle was in flight with it (overlap)
Fresh ==
    [pc |-> "new", upiId |-> "", mode |-> "", language |-> "", model |-> NoModel,
     features |-> <<>>,
     is_fraud |-> FALSE,
     prob |-> 0, backend |-> "", explanation |-> PyNone, history |-> EmptyMap,
     fraud_count |-> 0, is_recurring |-> FALSE, resp |-> NoResp, status |-> 0,
     detail |-> "", calls |-> 0, clfFailed |-> FALSE, saved |-> FALSE,
     saveFailed |-> FALSE, unreadable |-> FALSE, overlap |-> FALSE]

Finished == [Fresh EXCEPT !.pc = "done"]

Awaits_AlsoInUpdate(p) == p \in {"sleep", "load"}

Awaits_AlsoAfterUpdate(p) == p \in {"sleep", "save"}

\* the await points of predict_fraud: asyncio.sleep(2) alone
Awaits(p) == p = "sleep"

\* who holds the event loop after request r ran the step at p
LoopAfter(r, p) == IF Awaits(p) THEN 0 ELSE r

\* a request whose handler has started and not yet ended
InFlight(r) == req[r].pc \notin {"new", "rejected", "done"}

Serving(r, p) == app = "serving" /\ running = r /\ req[r].pc = p

Env == <<artifacts, quota, app, models>>
Ghost == <<baseline, fraudOk, answered>>

\* raise HTTPException(status_code=500, ...)
Raise500(r, why) ==
    [req EXCEPT ![r].pc = "raise", ![r].status = 500, ![r].detail = why]

\* line 216: detail=f"Prediction error: {str(e)}"
PredictionError(e) == "Prediction error: " \o e

ClassifierFailed_Retries(r, n) ==
    [req EXCEPT ![r].calls = req[r].calls + n, ![r].clfFailed = TRUE]

\* lines 188, 191, 213-217: the n-th call of the classifier raises, the except
\* clause of the handler turns the exception into a 500
ClassifierFailed(r, n) ==
    [Raise500(r, PredictionError("classifier failed")) EXCEPT
        ![r].calls = n, ![r].clfFailed = TRUE]

\* the app starts: load_model, then an empty history file if there is none
Startup ==
    /\ app = "booting"
    /\ \E out \in SaveOutcomes :
         LET ms == LoadModel(artifacts)
             f == IF file.kind = "missing" THEN SaveFraudHistory(file, EmptyMap, out) ELSE file
             crash == LoadModelRaises(ms) \/ (file.kind = "missing" /\ SaveRaises(out))
         IN  /\ models' = ms
             /\ file' = IF LoadModelRaises(ms) THEN file ELSE f
             /\ app' = IF crash THEN "crashed" ELSE "serving"
             /\ baseline' = LoadFraudHistory(file')
    /\ UNCHANGED <<artifacts, quota, running, req, fraudOk, answered>>

\* GET /health: reports which modes are loaded, changes nothing
HealthCheck ==
    /\ app = "serving"
    /\ running = 0
    /\ UNCHANGED vars

\* the request body fails the validation of TransactionInput: FastAPI answers
\* 422 and predict_fraud is not called
Reject422(r, upi, mode, language) ==
    [req EXCEPT ![r].pc = "rejected", ![r].upiId = upi, ![r].mode = mode,
                ![r].language = language, ![r].status = 422,
                ![r].detail = "validation error"]

\* a POST /predict arrives; when its body is a valid TransactionInput the
\* handler starts
Receive(r) ==
    /\ app = "serving"
    /\ running = 0
    /\ req[r].pc = "new"
    /\ r <= quota
    /\ \A q \in Reqs : q < r => req[q].pc # "new"
    /\ \E upi \in Handles, mode \in Modes, language \in RequestLanguages :
         LET shares(q) == InFlight(q) /\ req[q].upiId = upi
         IN  req' = IF ~ValidLanguage(language) THEN Reject422(r, upi, mode, language)
                    ELSE
                    [q \in Reqs |->
                       IF q = r
                       THEN [req[r] EXCEPT !.pc = "select", !.upiId = upi, !.mode = mode,
                                           !.language = language,
                                           !.overlap = \E o \in Reqs : shares(o)]
                       ELSE IF shares(q) THEN [req[q] EXCEPT !.overlap = TRUE]
                       ELSE req[q]]
    /\ running' = r
    /\ UNCHANGED <<Env, file, Ghost>>

\* a suspended coroutine gets the loop back
Resume(r) ==
    /\ app = "serving"
    /\ running = 0
    /\ InFlight(r)
    /\ running' = r
    /\ UNCHANGED <<Env, file, req, Ghost>>

\* lines 162-170
Select(r) ==
    /\ Serving(r, "select")
    /\ LET model == SelectModel(models, req[r].mode)
       IN  req' = IF model = NoModel
                  THEN Raise500(r, "No models loaded")
                  ELSE [req EXCEPT ![r].model = model,
                                   ![r].pc = IF req[r].mode = "accurate" THEN "sleep"
                                             ELSE "predict"]
    /\ models' = RegistryAfterSelect(models, req[r].mode)
    /\ running' = LoopAfter(r, "select")
    /\ UNCHANGED <<artifacts, quota, app, file, Ghost>>

\* lines 174-175: await asyncio.sleep(2)
Sleep(r) ==
    /\ Serving(r, "sleep")
    /\ req' = [req EXCEPT ![r].pc = "predict"]
    /\ running' = LoopAfter(r, "sleep")
    /\ UNCHANGED <<Env, file, Ghost>>

Predict_RecordsFirst(r) ==
    /\ Serving(r, "predict")
    /\ \E t \in Times :
         file' = SaveFraudHistory(file, Updated(LoadFraudHistory(file), req[r].upiId,
                                                FALSE, t), "ok")
    /\ LET features == Features(Transactions[req[r].upiId])
       IN  \/ req' = [ClassifierFailed(r, 1) EXCEPT ![r].features = features]
           \/ req' = [ClassifierFailed(r, 2) EXCEPT ![r].features = features]
           \/ \E c \in ClassifierResults :
                req' = [req EXCEPT ![r].pc = "explain", ![r].features = features,
                                   ![r].is_fraud = c.label, ![r].prob = c.prob,
                                   ![r].calls = 2]
    /\ running' = LoopAfter(r, "predict")
    /\ UNCHANGED <<Env, Ghost>>

\* lines 178-195: model.predict, model.predict_proba, is_fraud
Predict(r) ==
    /\ Serving(r, "predict")
    /\ LET features == Features(Transactions[req[r].upiId])
       IN  \/ req' = [ClassifierFailed(r, 1) EXCEPT ![r].features = features]
           \/ req' = [ClassifierFailed(r, 2) EXCEPT ![r].features = features]
           \/ \E c \in ClassifierResults :
                req' = [req EXCEPT ![r].pc = "explain", ![r].features = features,
                                   ![r].is_fraud = c.label, ![r].prob = c.prob,
                                   ![r].calls = 2]
    /\ running' = LoopAfter(r, "predict")
    /\ UNCHANGED <<Env, file, Ghost>>

\* line 237: requests.post is sent and the handler blocks in it
PostExplain(r) ==
    /\ Serving(r, "explain")
    /\ req' = [req EXCEPT ![r].pc = "explaining"]
    /\ running' = LoopAfter(r, "explain")
    /\ UNCHANGED <<Env, file, Ghost>>

\* lines 237-256, line 198: get_ai_explanation returns
ExplainReturns(r) ==
    /\ Serving(r, "explaining")
    /\ \E outcome \in BackendOutcomes :
         LET res == GetAiExplanation(outcome)
         IN  req' = IF res.raises
                    THEN [Raise500(r, PredictionError("explanation failed")) EXCEPT
                            ![r].backend = outcome]
                    ELSE [req EXCEPT ![r].pc = "load", ![r].backend = outcome,
                                     ![r].explanation = res.value]
    /\ running' = LoopAfter(r, "explaining")
    /\ UNCHANGED <<Env, file, Ghost>>

\* line 76: history = load_fraud_history()
LoadHistory(r) ==
    /\ Serving(r, "load")
    /\ req' = IF LoadRaises(file)
              THEN [Raise500(r, PredictionError("history read failed")) EXCEPT
                      ![r].backend = "", ![r].unreadable = (file.kind = "corrupt")]
              ELSE [req EXCEPT ![r].pc = "save", ![r].history = LoadFraudHistory(file),
                               ![r].backend = "",
                               ![r].unreadable = (file.kind = "corrupt")]
    /\ running' = LoopAfter(r, "load")
    /\ UNCHANGED <<Env, file, Ghost>>

\* lines 78-87: the record is created, counted, stamped with utcnow(), and the
\* mapping saved
SaveHistory(r) ==
    /\ Serving(r, "save")
    /\ \E out \in SaveOutcomes, t \in Times :
         LET history == Updated(req[r].history, req[r].upiId, req[r].is_fraud, t)
         IN  /\ file' = SaveFraudHistory(file, history, out)
             /\ req' = IF SaveRaises(out)
                       THEN [Raise500(r, PredictionError("history write failed")) EXCEPT
                            ![r].saveFailed = TRUE]
                       ELSE [req EXCEPT ![r].pc = "recur", ![r].history = history,
                                        ![r].saved = (out = "ok"),
                                        ![r].saveFailed = (out # "ok"),
                                        ![r].fraud_count = history[req[r].upiId].fraud_count]
             \* a write that failed part-way starts a new period of the store
             /\ baseline' = IF out = "write_fails" THEN EmptyMap ELSE baseline
             /\ fraudOk' = IF out = "write_fails" THEN [h \in Handles |-> 0] ELSE fraudOk
             /\ answered' = IF out = "write_fails" THEN {} ELSE answered
    /\ running' = LoopAfter(r, "save")
    /\ UNCHANGED <<Env>>

\* lines 202-211: is_recurring_fraud_upi and the FraudPrediction
BuildResponse(r) ==
    /\ Serving(r, "recur")
    /\ LET is_recurring == IsRecurringFraudUpi(file, req[r].upiId)
       IN  req' = [req EXCEPT ![r].pc = "return", ![r].status = 200,
                     ![r].is_recurring = is_recurring,
                     ![r].resp = [fraud |-> req[r].is_fraud,
                                  risk_score |-> Round4(req[r].prob),
                                  model_used |-> req[r].mode,
                                  recurring_fraud_upi |-> is_recurring,
                                  fraud_count |-> req[r].fraud_count,
                                  explanation |-> req[r].explanation]]
    /\ running' = LoopAfter(r, "recur")
    /\ UNCHANGED <<Env, file, Ghost>>

\* the response or the error goes out and the coroutine ends
Deliver(r) ==
    /\ app = "serving"
    /\ running = r
    /\ req[r].pc \in {"return", "raise", "rejected"}
    /\ req' = [req EXCEPT ![r] = Finished]
    /\ running' = 0
    /\ fraudOk' = IF req[r].status = 200 /\ req[r].resp.fraud
                  THEN [fraudOk EXCEPT ![req[r].upiId] = @ + 1]
                  ELSE fraudOk
    /\ answered' = IF req[r].status = 200 THEN answered \cup {req[r].upiId} ELSE answered
    /\ UNCHANGED <<Env, file, baseline>>

\* history files the program wrote in an earlier run
FilesAtBoot ==
    {FileMissing,
     JsonFile(JsonDump([EmptyMap EXCEPT !["a@upi"] =
                          [present |-> TRUE, fraud_count |-> 1, last_seen |-> 0]]))}

\* the deployments of the model: each content of the ml directory, on a first
\* start or after an earlier run
Deployments ==
    {d \in ArtifactSets \X FilesAtBoot :
        (d[2] = FileMissing) <=> (d[1] \in {{}, {"model_accurate.pkl"}})}

Init ==
    /\ \E d \in Deployments : artifacts = d[1] /\ file = d[2]
    /\ quota = NumReqs
    /\ app = "booting"
    /\ models = ModelsAtImport
    /\ running = 0
    /\ req = [r \in Reqs |-> Fresh]
    /\ baseline = LoadFraudHistory(file)
    /\ fraudOk = [h \in Handles |-> 0]
    /\ answered = {}

Next ==
    \/ Startup
    \/ HealthCheck
    \/ \E r \in Reqs :
         \/ Receive(r)
         \/ Resume(r)
         \/ Select(r)
         \/ Sleep(r)
         \/ Predict(r)
         \/ PostExplain(r)
         \/ ExplainReturns(r)
         \/ LoadHistory(r)
         \/ SaveHistory(r)
         \/ BuildResponse(r)
         \/ Deliver(r)

Spec == Init /\ [][Next]_vars

\* a deployment with both classifiers and no history file, serving one
\* request more
InitRecurring ==
    /\ artifacts = {"model_fast.pkl", "model_accurate.pkl"}
    /\ quota = NumReqs + 1
    /\ app = "booting"
    /\ models = ModelsAtImport
    /\ file = FileMissing
    /\ running = 0
    /\ req = [r \in Reqs |-> Fresh]
    /\ baseline = EmptyMap
    /\ fraudOk = [h \in Handles |-> 0]
    /\ answered = {}

SpecRecurring == InitRecurring /\ [][Next]_vars

(***************************************************************************)
(* Properties.                                                             *)
(***************************************************************************)
\* what load_fraud_history reports for a handle
HasRecord(f, h) == LoadFraudHistory(f)[h].present
PersistedCount(f, h) ==
    IF HasRecord(f, h) THEN LoadFraudHistory(f)[h].fraud_count ELSE 0

BaseCount(h) == IF baseline[h].present THEN baseline[h].fraud_count ELSE 0

\* fraud verdicts whose update is stored and whose response is still to go out
StoredUndelivered(h) ==
    {r \in Reqs : req[r].pc \in {"recur", "return"} /\ req[r].upiId = h /\ req[r].is_fraud}

CountNeverDecreases ==
    [][\A h \in Handles :
          /\ HasRecord(file, h) => HasRecord(file', h)
          /\ PersistedCount(file', h) >= PersistedCount(file, h)]_vars

FallbackOf(outcome) ==
    CASE outcome = "timeout" -> TimeoutMsg
      [] outcome = "connection" -> UnavailableMsg
      [] OTHER -> ErrorMsg

IsFallback(e) == e \in {Some(TimeoutMsg), Some(UnavailableMsg), Some(ErrorMsg)}

\* C4: the explanation backend never fails a request. After a timeout, a
\* refused connection or an error status the handler goes on with the
\* non-empty fallback of that kind of failure, no request is in error with the
\* backend's outcome as the cause, and a response carrying a fallback has the
\* verdict, the rounded probability, the mode, and the count and recurring
\* flag of the history as stored by this request.
ExplanationNeverFails ==
    \A r \in Reqs :
        /\ req[r].pc = "raise" => req[r].backend = ""
        /\ req[r].backend \in BackendFailures =>
              /\ req[r].pc = "load"
              /\ req[r].explanation = Some(FallbackOf(req[r].backend))
              /\ FallbackOf(req[r].backend) # ""
              /\ \A o \in BackendFailures \ {req[r].backend} :
                    FallbackOf(o) # FallbackOf(req[r].backend)
        /\ (req[r].pc = "return" /\ IsFallback(req[r].explanation)) =>
              /\ req[r].status = 200
              /\ req[r].saved
              /\ req[r].resp.explanation = req[r].explanation
              /\ req[r].resp.fraud = req[r].is_fraud
              /\ req[r].resp.risk_score = Round4(req[r].prob)
              /\ req[r].resp.model_used = req[r].mode
              /\ req[r].resp.fraud_count = PersistedCount(file, req[r].upiId)
              /\ req[r].resp.recurring_fraud_upi = (PersistedCount(file, req[r].upiId) >= 3)

\* a fraud verdict whose explanation call timed out is answered, counted
ExplanationNeverFailsWitness ==
    \E r \in Reqs :
        /\ req[r].pc = "return"
        /\ req[r].explanation = Some(TimeoutMsg)
        /\ req[r].resp.fraud
        /\ req[r].resp.fraud_count = PersistedCount(file, req[r].upiId)
        /\ req[r].resp.fraud_count > 0

OtherMode(m) == IF m = "fast" THEN "accurate" ELSE "fast"

\* C5: model_used names the mode of the classifier applied: the requested mode
\* when it is loaded, the other mode under fallback.
ModelUsedIsApplied ==
    \A r \in Reqs :
        req[r].pc = "return" =>
            req[r].resp.model_used =
                IF models[req[r].mode] # NoModel THEN req[r].mode ELSE OtherMode(req[r].mode)

\* C6: while the explanation call of a request is outstanding, the history
\* update of that request is already stored.
HistoryBeforeExplanation ==
    \A r \in Reqs : req[r].pc = "explaining" => req[r].saved

\* C7 as stated: whatever the backend call ends in, get_ai_explanation hands a
\* string to the handler.
ExplanationAlwaysString ==
    \A r \in Reqs : req[r].pc = "load" => IsStr(req[r].explanation)

\* C7, amended: get_ai_explanation never raises and returns a string or None:
\* the backend's explanation when it is non-empty; the fallback of the failure
\* for a timeout, a refused connection, an error status or a body that requests
\* rejects as JSON; None when the explanation is empty or missing or on any
\* other error.
ExplanationStringOrNone ==
    \A r \in Reqs :
        req[r].backend # "" =>
            /\ req[r].pc = "load"
            /\ req[r].explanation =
                  CASE req[r].backend = "text" -> Some(BackendText)
                    [] req[r].backend \in BackendFailures -> Some(FallbackOf(req[r].backend))
                    [] req[r].backend = "bad_json_requests" -> Some(ErrorMsg)
                    [] OTHER -> PyNone

\* the backend answered 200 with an empty explanation and the handler goes on
\* with None
ExplanationStringOrNoneWitness ==
    \E r \in Reqs :
        req[r].pc = "load" /\ req[r].backend = "empty" /\ req[r].explanation = PyNone

\* C8: the classifier invoked is the one of the requested mode if loaded, else
\* the fast one if loaded, else the accurate one; with none loaded the request
\* ends in a 500 and no classifier is invoked.
ModelSelection ==
    /\ \A mode \in Modes : SelectModel(ModelsAtImport, mode) = NoModel
    /\ \A r \in Reqs :
          req[r].pc \notin {"new", "rejected", "select", "done"} =>
              IF models["fast"] = NoModel /\ models["accurate"] = NoModel
              THEN /\ req[r].pc = "raise" /\ req[r].status = 500
                   /\ req[r].detail = "No models loaded"
                   /\ req[r].calls = 0
              ELSE /\ req[r].model # NoModel
                   /\ req[r].model =
                         IF models[req[r].mode] # NoModel THEN models[req[r].mode]
                         ELSE IF models["fast"] # NoModel THEN models["fast"]
                         ELSE models["accurate"]

\* a request for the accurate mode, with the fast classifier alone loaded, had
\* the fast classifier invoked
ModelSelectionWitness ==
    \E r \in Reqs :
        /\ req[r].mode = "accurate"
        /\ models["accurate"] = NoModel
        /\ req[r].model = "model_fast.pkl"
        /\ req[r].calls = 2
        /\ req[r].pc = "explain"

\* C9: update_fraud_history, from whatever mapping is persisted, leaves the
\* handle with a record whose fraud_count is the old one (0 if there was none)
\* plus 1 exactly if the verdict is fraud and whose last_seen is the clock's
\* reading, has it persisted, and returns that fraud_count; the response
\* carries it.
RecordOutcome ==
    /\ [][\A r \in Reqs :
            (req[r].pc = "save" /\ req'[r].pc = "recur") =>
                LET h == req[r].upiId
                    new == LoadFraudHistory(file')[h]
                IN  /\ file'.kind = "json"
                    /\ new.present
                    /\ new.fraud_count =
                          PersistedCount(file, h) + (IF req[r].is_fraud THEN 1 ELSE 0)
                    /\ new.last_seen \in Times
                    /\ req'[r].fraud_count = new.fraud_count]_vars
    /\ [](\A r \in Reqs :
            req[r].pc = "return" =>
                req[r].resp.fraud_count = PersistedCount(file, req[r].upiId))

\* a request found legitimate, for a handle without a record, left a record
\* with count 0 and a stamp of this run
RecordOutcomeWitness ==
    \E r \in Reqs :
        /\ req[r].pc = "return"
        /\ ~req[r].is_fraud
        /\ ~baseline[req[r].upiId].present
        /\ fraudOk[req[r].upiId] = 0
        /\ HasRecord(file, req[r].upiId)
        /\ LoadFraudHistory(file)[req[r].upiId].last_seen \in Times
        /\ req[r].resp.fraud_count = 0

\* C10: a request whose history write failed ends in a 500, and a response
\* that is about to go out carries the fraud_count that the file holds.
PersistFailureIsFatal ==
    \A r \in Reqs :
        /\ req[r].saveFailed => (req[r].pc = "raise" /\ req[r].status = 500)
        /\ req[r].pc = "return" =>
              /\ req[r].saved
              /\ file.kind = "json"
              /\ LoadFraudHistory(file)[req[r].upiId].present
              /\ LoadFraudHistory(file)[req[r].upiId].fraud_count = req[r].resp.fraud_count

\* the write of a fraud verdict failed part-way and the request is in error
PersistFailureIsFatalWitness ==
    \E r \in Reqs :
        /\ req[r].saveFailed
        /\ req[r].is_fraud
        /\ req[r].pc = "raise"
        /\ file.kind = "corrupt"

\* C11: a failure of the classifier is fatal to its request. Once predict or
\* predict_proba has raised, the request is in error with status 500 and a
\* detail that carries the failure, nothing of it is stored, and the
\* classifier is not called for it again.
ClassifierFailureIsFatal ==
    /\ [](\A r \in Reqs :
            req[r].clfFailed =>
                /\ req[r].pc = "raise"
                /\ req[r].status = 500
                /\ req[r].detail = PredictionError("classifier failed")
                /\ req[r].calls \in {1, 2}
                /\ ~req[r].saved)
    /\ [][\A r \in Reqs :
            req[r].clfFailed =>
                (req'[r].pc = "done" \/ req'[r].calls = req[r].calls)]_vars

\* predict returned and predict_proba raised: the request is in error after
\* two calls
ClassifierFailureIsFatalWitness ==
    \E r \in Reqs :
        /\ req[r].clfFailed
        /\ req[r].calls = 2
        /\ req[r].pc = "raise"
        /\ req[r].status = 500

WithCrossFeatures(t) ==
    <<t.transactionAmount, t.transactionAmountDeviation, t.timeAnomaly,
      t.locationDistance, t.merchantNovelty, t.transactionFrequency,
      t.transactionAmount * t.locationDistance,
      t.transactionAmountDeviation * t.merchantNovelty,
      t.timeAnomaly \div (t.transactionFrequency + 1)>>

\* C13 as stated: the row handed to the classifier depends on the mode: the six
\* inputs in their order in fast mode, and in accurate mode those six followed
\* by amount * locationDistance, amountDeviation * merchantNovelty and
\* timeAnomaly / (transactionFrequency + 1).
FeaturesByMode ==
    \A r \in Reqs :
        req[r].calls > 0 =>
            LET t == Transactions[req[r].upiId]
            IN  req[r].features =
                   IF req[r].mode = "fast"
                   THEN <<t.transactionAmount, t.transactionAmountDeviation, t.timeAnomaly,
                          t.locationDistance, t.merchantNovelty, t.transactionFrequency>>
                   ELSE WithCrossFeatures(t)

\* C13, amended: in either mode the row handed to the classifier is the six
\* inputs in the order amount, amount deviation, time anomaly, location
\* distance, merchant novelty, transaction frequency.
FeaturesSameInBothModes ==
    \A r \in Reqs :
        req[r].calls > 0 =>
            LET t == Transactions[req[r].upiId]
            IN  /\ Len(req[r].features) = 6
                /\ req[r].features[1] = t.transactionAmount
                /\ req[r].features[2] = t.transactionAmountDeviation
                /\ req[r].features[3] = t.timeAnomaly
                /\ req[r].features[4] = t.locationDistance
                /\ req[r].features[5] = t.merchantNovelty
                /\ req[r].features[6] = t.transactionFrequency

\* a request for the accurate mode, served by the accurate classifier, was
\* classified on a row of six entries
FeaturesSameInBothModesWitness ==
    \E r \in Reqs :
        /\ req[r].mode = "accurate"
        /\ req[r].model = "model_accurate.pkl"
        /\ req[r].pc = "explain"
        /\ req[r].calls = 2
        /\ req[r].features = <<500, 2, 1, 30, 1, 0>>

\* C14: a request whose language is none of en, hi, mr is not rejected and does
\* not fail: it is handled as a request for en.
UnsupportedLanguageAsEn ==
    \A r \in Reqs :
        (req[r].pc \notin {"new", "done"} /\ req[r].language \notin SupportedLanguages) =>
            /\ req[r].pc # "rejected"
            /\ req[r].status \in {0, 200}

\* the mappings the store can hold: per handle no record, or a count and a stamp
StoreMappings ==
    [Handles -> {NoRec} \cup
                [present : {TRUE}, fraud_count : 0..(NumReqs + 1), last_seen : 0..MaxTime]]

RegistryReadOnly ==
    /\ [](app = "serving" => models = LoadModel(artifacts))
    /\ [][app = "serving" => models' = models]_vars

\* a request for the accurate mode was served by the fast classifier and the
\* registry still has no accurate classifier
RegistryReadOnlyWitness ==
    \E r \in Reqs :
        /\ req[r].pc = "return"
        /\ req[r].mode = "accurate"
        /\ req[r].model = "model_fast.pkl"
        /\ models = [m \in Modes |-> IF m = "fast" THEN "model_fast.pkl" ELSE NoModel]

\* C17: a history file that is there but cannot be read or parsed does not fail
\* the request that loads it. The request goes on from the empty mapping,
\* fails only if its own write fails, and what it persists holds the record of
\* its own handle alone, with a count of 1 for a fraud verdict and 0 otherwise;
\* its response is a 200 with that count.
UnreadableFileStartsAfresh ==
    \A r \in Reqs :
        req[r].unreadable =>
            /\ req[r].pc \in {"save", "recur", "return", "raise"}
            /\ req[r].pc = "save" => req[r].history = EmptyMap
            /\ req[r].pc = "raise" => req[r].saveFailed
            /\ req[r].pc \in {"recur", "return"} =>
                  /\ \A g \in Handles : HasRecord(file, g) <=> g = req[r].upiId
                  /\ PersistedCount(file, req[r].upiId) = IF req[r].is_fraud THEN 1 ELSE 0
            /\ req[r].pc = "return" =>
                  /\ req[r].status = 200
                  /\ req[r].resp.fraud_count = IF req[r].is_fraud THEN 1 ELSE 0

\* a write failed part-way and left the file unreadable; the next request, a
\* fraud verdict for b@upi, is answered with a count of 1 and the file holds
\* the record of b@upi alone
UnreadableFileStartsAfreshWitness ==
    \E r \in Reqs :
        /\ req[r].unreadable
        /\ req[r].pc = "return"
        /\ req[r].upiId = "b@upi"
        /\ req[r].resp.fraud_count = 1
        /\ ~HasRecord(file, "a@upi")
        /\ HasRecord(file, "b@upi")

\* C18: the recurring flag of a response agrees with the count of the same
\* response: recurring_fraud_upi is true exactly when fraud_count is at least
\* 3, however the handlers of other requests interleaved with this one.
RecurringAgreesWithCount ==
    \A r \in Reqs :
        req[r].pc = "return" =>
            /\ req[r].status = 200
            /\ req[r].resp.recurring_fraud_upi = (req[r].resp.fraud_count >= 3)

\* a request that was in flight together with another for the same handle is
\* answered with a count of 3 and the flag set
RecurringAgreesWithCountWitness ==
    \E r \in Reqs :
        /\ req[r].pc = "return"
        /\ req[r].overlap
        /\ req[r].resp.fraud_count = 3
        /\ req[r].resp.recurring_fraud_upi

\* C19: the app serves only with a classifier. When load_model found no
\* classifier for either mode, startup has failed and nothing is served; in
\* every serving state at least one mode is loaded, every request past the
\* selection has a classifier, and no request ends with 'No models loaded'.
ServesOnlyWithClassifier ==
    /\ app = "serving" => \E m \in Modes : models[m] # NoModel
    /\ (app # "booting" /\ \A m \in Modes : models[m] = NoModel) =>
          /\ app = "crashed"
          /\ \A r \in Reqs : req[r].pc = "new"
    /\ \A r \in Reqs :
          /\ req[r].detail # "No models loaded"
          /\ req[r].pc \in {"sleep", "predict", "explain", "explaining", "load", "save",
                            "recur", "return"} => req[r].model # NoModel

\* the ml directory held no artifact: startup raised, the history file was not
\* created and no request is served
ServesOnlyWithClassifierWitness ==
    /\ app = "crashed"
    /\ artifacts = {}
    /\ \A m \in Modes : models[m] = NoModel
    /\ file \in FilesAtBoot
    /\ \A r \in Reqs : req[r].pc = "new"

\* C20: a request that fails before its history update leaves the persisted
\* history as it is. No step a request takes up to the classification, the
\* failing one included, and no delivery of such an error changes the file: no
\* record is created, no count and no stamp modified; and a request that
\* failed there has attempted no write.
FailureBeforeUpdateKeepsHistory ==
    /\ [](\A r \in Reqs :
            (req[r].clfFailed \/ req[r].detail = "No models loaded") =>
                (~req[r].saved /\ ~req[r].saveFailed))
    /\ [][\A r \in Reqs :
            LET received == req[r].pc = "new" /\ req'[r].pc # "new"
                early == running = r /\ req[r].pc \in {"select", "sleep", "predict"}
                failed == running = r /\ req[r].pc = "raise" /\ ~req[r].saveFailed
            IN  (received \/ early \/ failed) => file' = file]_vars

\* the classifier raised for a request of b@upi: the request is in error and
\* the file is the one of startup, with the record of a@upi and none of b@upi
FailureBeforeUpdateKeepsHistoryWitness ==
    \E r \in Reqs :
        /\ req[r].clfFailed
        /\ req[r].pc = "raise"
        /\ req[r].upiId = "b@upi"
        /\ file \in FilesAtBoot
        /\ HasRecord(file, "a@upi")
        /\ ~HasRecord(file, "b@upi")

\* C21: with a readable history file, a request for a handle changes the record
\* of that handle alone: over every step of its handler the fraud_count and
\* last_seen of every other handle in the persisted mapping stay as they were,
\* and no record of another handle appears or disappears.
OnlyOwnRecordChanges ==
    [][\A r \in Reqs :
          (running = r /\ InFlight(r) /\ file.kind = "json") =>
              \A g \in Handles \ {req[r].upiId} :
                  LoadFraudHistory(file')[g] = LoadFraudHistory(file)[g]]_vars

====
